---- MODULE Spec2Model ----
(***************************************************************************)
(* Continuous-time Markov model of HIV with economic evaluation.           *)
(*                                                                         *)
(* The module follows src/ct_hiv_model_econ_eval/model_classes.py: a       *)
(* script constructs Cohorts and calls Cohort.simulate; Cohort.simulate    *)
(* creates patients one after the other, runs Patient.simulate (the        *)
(* Gillespie loop), extracts the patient's outcomes and finally builds the *)
(* cohort outcomes.                                                        *)
(*                                                                         *)
(* Representation.                                                         *)
(*  - Time is counted in whole ticks (years); a sampled waiting time is a  *)
(*    strictly positive number of ticks, as an exponential sample is.      *)
(*    SpecNonNegative adds waiting times shorter than a tick (0), and      *)
(*    SpecAnySample the negative ones of a faulty sampler.                 *)
(*  - Python's None is the empty tuple <<>>, a set value x is <<x>>.       *)
(*  - Money is kept in whole currency units, utility in hundredths, and    *)
(*    the discount factor e^(-r t) in thousandths (fixed point).           *)
(*  - np.random.RandomState(seed) is a deterministic generator: the k-th   *)
(*    draw of the stream seeded with s is a fixed value.  The model leaves *)
(*    that value open the first time it is needed and remembers it in      *)
(*    `streams`, so that a generator seeded again with s replays it.       *)
(***************************************************************************)
EXTENDS Integers, Sequences, FiniteSets, TLC

VARIABLES
    script,      \* the Cohort(...) calls the run makes, in order: constructor arguments
    sim_length,  \* the horizon the script passes to every Cohort.simulate
    cohorts,     \* the Cohort objects constructed so far (the last one is being simulated)
    pc,          \* position: "script", "for" (Cohort.simulate loop head), "while" (Patient.simulate loop)
    i,           \* loop variable of Cohort.simulate
    patient,     \* the Patient bound to the loop variable `patient`
    streams,     \* seed -> draws the generator RandomState(seed) has produced so far
    simulated    \* per cohort: the patients whose Patient.simulate has returned, in order

vars == <<script, sim_length, cohorts, pc, i, patient, streams, simulated>>

-----------------------------------------------------------------------------
(* Bounds of the model *)

MaxPopSize == 2
MaxSimLength == 3
MaxDt == 2
MaxCohortId == 1
MaxUpdates == 3

-----------------------------------------------------------------------------
(* input_data.py *)

CD4_200to500 == 0
CD4_200 == 1
AIDS == 2
HIV_DEATH == 3
NATUAL_DEATH == 4

HealthStates == {CD4_200to500, CD4_200, AIDS, HIV_DEATH, NATUAL_DEATH}

\* rows of the transition-count matrix: CD4_200to500, CD4_200, AIDS;
\* columns: CD4_200to500, CD4_200, AIDS, HIV_DEATH
TRANS_MATRIX ==
    << <<1251, 350, 116, 17>>,
       <<0, 731, 512, 15>>,
       <<0, 0, 1312, 437>> >>

ANNUAL_STATE_COST == <<2756, 3025, 9007, 0>>

\* in hundredths: 0.9, 0.85, 0.75, 0
ANNUAL_STATE_UTILITY == <<90, 85, 75, 0>>

Zidovudine_COST == 2278
Lamivudine_COST == 2086

\* DISCOUNT = 0.03, in thousandths
DISCOUNT == 30

None == <<>>

Some(x) == <<x>>

-----------------------------------------------------------------------------
(* Parameters (param_classes.py) *)

Therapies == {"MONO", "COMBO"}

Parameters(therapy, initial) ==
    [ therapy              |-> therapy,
      initialHealthState   |-> initial,
      annualTreatmentCost  |-> IF therapy = "MONO"
                                 THEN Zidovudine_COST
                                 ELSE Zidovudine_COST + Lamivudine_COST,
      annualStateCosts     |-> ANNUAL_STATE_COST,
      annualStateUtilities |-> ANNUAL_STATE_UTILITY,
      discountRate         |-> DISCOUNT ]

\* The states with a positive rate out of state s: the off-diagonal non-zero
\* entries of its row of TRANS_MATRIX, and background mortality (NATUAL_DEATH)
\* from every state that has a row; the death states have all-zero rows.
RateSupport(s) ==
    IF s + 1 \in DOMAIN TRANS_MATRIX
      THEN { j \in HealthStates :
               /\ j # s
               /\ \/ j + 1 \in DOMAIN TRANS_MATRIX[s + 1] /\ TRANS_MATRIX[s + 1][j + 1] > 0
                  \/ j = NATUAL_DEATH }
      ELSE {}

-----------------------------------------------------------------------------
(* The random stream and the event sampler (Gillespie.get_next_state) *)

\* rng = np.random.RandomState(seed=self.id)
RandomState(seed) == [seed |-> seed, pos |-> 0]

\* Gillespie: a state is absorbing when the sum of the rates out of it is 0
IsAbsorbing(s) == RateSupport(s) = {}

\* what one call of get_next_state can return in the non-absorbing state s: a
\* strictly positive waiting time and one of the states with a positive rate
Samples(s) == { [state |-> s, dt |-> Some(d), i |-> j] : d \in 1..MaxDt, j \in RateSupport(s) }

\* has the stream seeded with rng.seed already produced its next sample, in state s?
Replayed(rng, s) ==
    /\ rng.seed \in DOMAIN streams
    /\ rng.pos < Len(streams[rng.seed])
    /\ streams[rng.seed][rng.pos + 1].state = s

\* Gillespie.get_next_state(current_state_index, rng): the results (dt, i) it can
\* give.  dt is None in an absorbing state, where nothing is taken from rng;
\* otherwise the sample is the remembered one when this stream was drawn that
\* far before, and any sample when it is drawn for the first time.
GetNextState(current_state_index, rng) ==
    IF IsAbsorbing(current_state_index)
      THEN { [state |-> current_state_index, dt |-> None, i |-> current_state_index] }
      ELSE IF Replayed(rng, current_state_index)
             THEN { streams[rng.seed][rng.pos + 1] }
             ELSE Samples(current_state_index)

\* the streams after generator rng has produced sample.  A stream is remembered
\* while a Cohort the script constructs later can seed a generator again.
Remember(rng, sample) ==
    IF \/ sample.dt = None
       \/ Replayed(rng, sample.state)
       \/ ~ (Len(cohorts) < Len(script))
       \/ (rng.seed \in DOMAIN streams /\ Len(streams[rng.seed]) # rng.pos)
      THEN streams
      ELSE [s \in DOMAIN streams \cup {rng.seed} |->
              IF s = rng.seed
                THEN (IF s \in DOMAIN streams THEN streams[s] ELSE <<>>) \o <<sample>>
                ELSE streams[s]]

-----------------------------------------------------------------------------
(* PatientCostUtilityMonitor *)

CostUtilityMonitorInit ==
    [tLastRecorded |-> 0, totalDiscountedCost |-> 0, totalDiscountedUtility |-> 0]

\* e^(-rate), rate and result in thousandths (second-order expansion)
ExpNeg(rate) == 1000 - rate + (rate * rate) \div 2000

\* e^(-rate * t) in thousandths
RECURSIVE DiscountFactor(_, _)
DiscountFactor(rate, t) ==
    IF t = 0 THEN 1000
    ELSE IF t > 0 THEN (DiscountFactor(rate, t - 1) * ExpNeg(rate)) \div 1000
    ELSE (DiscountFactor(rate, t + 1) * 1000) \div ExpNeg(rate)

\* (the value of the whole stream from t2 - t1 on, not of the stream over (t1, t2))
PvFromIntervalEnd(payment, discount_rate, t1, t2) ==
    IF discount_rate = 0
      THEN payment * (t2 - t1)
      ELSE (payment * DiscountFactor(discount_rate, t2 - t1)) \div discount_rate

\* (the period discounted from its own start: payment * (1 - e^(-r (t2 - t1))) / r)
PvIntervalLengthOnly(payment, discount_rate, t1, t2) ==
    IF discount_rate = 0
      THEN payment * (t2 - t1)
      ELSE (payment * (1000 - DiscountFactor(discount_rate, t2 - t1))) \div discount_rate

\* (the two ends of the discount period exchanged)
PvPeriodSwapped(payment, discount_rate, t1, t2) ==
    IF discount_rate = 0
      THEN payment * (t1 - t2)
      ELSE (payment * (DiscountFactor(discount_rate, t2) - DiscountFactor(discount_rate, t1)))
             \div discount_rate

\* econ.pv_continuous_payment(payment, discount_rate, discount_period=(t1, t2))
PvContinuousPayment(payment, discount_rate, t1, t2) ==
    IF discount_rate = 0
      THEN payment * (t2 - t1)
      ELSE (payment * (DiscountFactor(discount_rate, t1) - DiscountFactor(discount_rate, t2)))
             \div discount_rate

\* (the time of the last recording is not moved to the current time)
CostUtilityUpdateNoStamp(m, params, time, current_state) ==
    LET cost == params.annualStateCosts[current_state + 1] + params.annualTreatmentCost
        utility == params.annualStateUtilities[current_state + 1]
    IN [ m EXCEPT
           !.totalDiscountedCost =
               @ + PvContinuousPayment(cost, params.discountRate, m.tLastRecorded, time),
           !.totalDiscountedUtility =
               @ + PvContinuousPayment(utility, params.discountRate, m.tLastRecorded, time) ]

CostUtilityUpdate(m, params, time, current_state) ==
    LET cost == params.annualStateCosts[current_state + 1] + params.annualTreatmentCost
        utility == params.annualStateUtilities[current_state + 1]
        discounted_cost ==
            PvContinuousPayment(cost, params.discountRate, m.tLastRecorded, time)
        discounted_utility ==
            PvContinuousPayment(utility, params.discountRate, m.tLastRecorded, time)
    IN [ tLastRecorded          |-> time,
         totalDiscountedCost    |-> m.totalDiscountedCost + discounted_cost,
         totalDiscountedUtility |-> m.totalDiscountedUtility + discounted_utility ]

-----------------------------------------------------------------------------
(* PatientStateMonitor *)

StateMonitorInit(params) ==
    [ currentState       |-> params.initialHealthState,
      survivalTime       |-> None,
      timeToAIDS         |-> None,
      costUtilityMonitor |-> CostUtilityMonitorInit ]

\* (the test on the state being left is missing)
StateMonitorUpdateNoGuard(m, params, time, new_state) ==
    [ survivalTime       |-> IF new_state \in {HIV_DEATH, NATUAL_DEATH}
                               THEN Some(time) ELSE m.survivalTime,
      timeToAIDS         |-> IF new_state = AIDS
                               THEN Some(time) ELSE m.timeToAIDS,
      costUtilityMonitor |-> CostUtilityUpdate(m.costUtilityMonitor, params,
                                               time, m.currentState),
      currentState       |-> new_state ]

\* (currentState assigned before the cost and utility update, which then
\* charges the interval at the rates of new_state; the dead states share the
\* last entry of the lists)
StateMonitorUpdateStateFirst(m, params, time, new_state) ==
    [ survivalTime       |-> IF new_state \in {HIV_DEATH, NATUAL_DEATH}
                               THEN Some(time) ELSE m.survivalTime,
      timeToAIDS         |-> IF m.currentState # AIDS /\ new_state = AIDS
                               THEN Some(time) ELSE m.timeToAIDS,
      costUtilityMonitor |-> CostUtilityUpdate(m.costUtilityMonitor, params, time,
                                               IF new_state = NATUAL_DEATH
                                                 THEN HIV_DEATH ELSE new_state),
      currentState       |-> new_state ]

StateMonitorUpdate(m, params, time, new_state) ==
    [ survivalTime       |-> IF new_state \in {HIV_DEATH, NATUAL_DEATH}
                               THEN Some(time) ELSE m.survivalTime,
      timeToAIDS         |-> IF m.currentState # AIDS /\ new_state = AIDS
                               THEN Some(time) ELSE m.timeToAIDS,
      costUtilityMonitor |-> CostUtilityUpdate(m.costUtilityMonitor, params,
                                               time, m.currentState),
      currentState       |-> new_state ]

-----------------------------------------------------------------------------
(* Patient *)

\* Patient.__init__ and the start of Patient.simulate (rng, t = 0, if_stop = False);
\* updates is the list of the calls of stateMonitor.update made so far
PatientInit(id, params) ==
    [ id           |-> id,
      params       |-> params,
      stateMonitor |-> StateMonitorInit(params),
      rng          |-> RandomState(id),
      t            |-> 0,
      if_stop      |-> FALSE,
      updates      |-> <<>> ]

\* if dt is None: if_stop = True
AbsorbedNoStop(p) == p

\* (the update call moved out of the else branch)
AbsorbedThenUpdate(p) ==
    [ p EXCEPT
        !.if_stop = TRUE,
        !.stateMonitor =
            IF @.currentState + 1 \in DOMAIN p.params.annualStateCosts
              THEN StateMonitorUpdate(@, p.params, p.t, @.currentState)
              ELSE @,
        !.updates = Append(@, [ time      |-> p.t,
                                old_state |-> p.stateMonitor.currentState,
                                new_state |-> p.stateMonitor.currentState,
                                truncated |-> FALSE ]) ]

Absorbed(p) == [p EXCEPT !.if_stop = TRUE]

\* t += dt
ClockRestarted(t, dt) == dt

AdvanceClock(t, dt) == t + dt

\* new_state_index = self.stateMonitor.currentState.value
KeepSampledState(current, sampled) == sampled

TruncatedState(current, sampled) == current

\* one iteration of the while loop, given what get_next_state returned
SimulateIteration(p, sample, simLength) ==
    IF sample.dt = None
      THEN Absorbed(p)
      ELSE LET dt == sample.dt[1]
               beyond == dt + p.t > simLength
               t1 == IF beyond THEN simLength ELSE AdvanceClock(p.t, dt)
               new_state_index ==
                   IF beyond
                     THEN TruncatedState(p.stateMonitor.currentState, sample.i)
                     ELSE sample.i
           IN [ p EXCEPT
                  !.rng = [@ EXCEPT !.pos = @ + 1],
                  !.t = t1,
                  !.if_stop = IF beyond THEN TRUE ELSE @,
                  !.stateMonitor = StateMonitorUpdate(@, p.params, t1, new_state_index),
                  !.updates = Append(@, [ time      |-> t1,
                                          old_state |-> p.stateMonitor.currentState,
                                          new_state |-> new_state_index,
                                          truncated |-> beyond ]) ]

-----------------------------------------------------------------------------
(* CohortOutcomes *)

RECURSIVE SumSeq(_)
SumSeq(q) == IF q = <<>> THEN 0 ELSE Head(q) + SumSeq(Tail(q))

\* stats.SummaryStat(name, data): what the statistics are computed from
SummaryStat(name, data) == [name |-> name, n |-> Len(data), total |-> SumSeq(data)]

\* PrevalencePathBatchUpdate(name, initial_size, times_of_changes, increments)
PrevalencePathBatchUpdate(name, initial_size, times_of_changes, increments) ==
    [ name             |-> name,
      initial_size     |-> initial_size,
      times_of_changes |-> times_of_changes,
      increments       |-> increments ]

\* the sizes the path takes: the initial size, then the size after each change,
\* the changes taken in ascending time
RECURSIVE PathSizes(_, _, _)
PathSizes(size, times, increments) ==
    IF times = <<>> THEN <<size>>
    ELSE LET k == CHOOSE x \in DOMAIN times : \A y \in DOMAIN times : times[x] <= times[y]
             rest(q) == SubSeq(q, 1, k - 1) \o SubSeq(q, k + 1, Len(q))
         IN <<size>> \o PathSizes(size + increments[k], rest(times), rest(increments))

CohortOutcomesInit ==
    [ survivalTimes   |-> <<>>,
      timesToAIDS     |-> <<>>,
      costs           |-> <<>>,
      utilities       |-> <<>>,
      nLivingPatients |-> None,
      statSurvivalTime |-> None,
      statTimeToAIDS   |-> None,
      statCost         |-> None,
      statUtility      |-> None ]

\* (the time until AIDS appended to the survival times)
ExtractOutcomeWrongList(o, simulated_patient) ==
    LET m == simulated_patient.stateMonitor
        withSurvival == IF m.survivalTime # None
                          THEN Append(o.survivalTimes, m.survivalTime[1])
                          ELSE o.survivalTimes
    IN [ o EXCEPT
           !.survivalTimes = IF m.timeToAIDS # None
                               THEN Append(withSurvival, m.timeToAIDS[1])
                               ELSE withSurvival,
           !.costs         = Append(@, m.costUtilityMonitor.totalDiscountedCost),
           !.utilities     = Append(@, m.costUtilityMonitor.totalDiscountedUtility) ]

ExtractOutcome(o, simulated_patient) ==
    LET m == simulated_patient.stateMonitor
    IN [ o EXCEPT
           !.survivalTimes = IF m.survivalTime # None
                               THEN Append(@, m.survivalTime[1]) ELSE @,
           !.timesToAIDS   = IF m.timeToAIDS # None
                               THEN Append(@, m.timeToAIDS[1]) ELSE @,
           !.costs         = Append(@, m.costUtilityMonitor.totalDiscountedCost),
           !.utilities     = Append(@, m.costUtilityMonitor.totalDiscountedUtility) ]

CalculateCohortOutcomes(o, initial_pop_size) ==
    [ o EXCEPT
        !.statSurvivalTime = Some(SummaryStat("Survival time", o.survivalTimes)),
        !.statTimeToAIDS   = Some(SummaryStat("Time until AIDS", o.timesToAIDS)),
        !.statCost         = Some(SummaryStat("Discounted cost", o.costs)),
        !.statUtility      = Some(SummaryStat("Discounted utility", o.utilities)),
        !.nLivingPatients  =
            Some(PrevalencePathBatchUpdate(
                     "# of living patients",
                     initial_pop_size,
                     o.survivalTimes,
                     [k \in 1..Len(o.survivalTimes) |-> -1])) ]

-----------------------------------------------------------------------------
(* Cohort *)

CohortInit(id, pop_size, parameters) ==
    [ id             |-> id,
      popSize        |-> pop_size,
      params         |-> parameters,
      cohortOutcomes |-> CohortOutcomesInit ]

\* (the number of Cohorts constructed so far used in place of the cohort's id)
PatientIdByOrder(cohort, n) == Len(cohorts) * cohort.popSize + n

\* (the cohort id not multiplied by the population size)
PatientIdNoScale(cohort, n) == cohort.id + n

\* use id * pop_size + n as patient id
PatientId(cohort, n) == cohort.id * cohort.popSize + n

\* the cohort being simulated
Current == cohorts[Len(cohorts)]

-----------------------------------------------------------------------------
(* The run *)

\* RunMarkovModel.py: one cohort, Cohort(id=1, ...)
CohortArgs ==
    [ id         : {1},
      pop_size   : 0..MaxPopSize,
      parameters : { Parameters(th, s) : th \in Therapies, s \in HealthStates } ]

Init ==
    /\ script \in { <<a>> : a \in CohortArgs }
    /\ sim_length \in 0..MaxSimLength
    /\ cohorts = <<>>
    /\ pc = "script"
    /\ i = 0
    /\ patient = None
    /\ streams = <<>>
    /\ simulated = <<>>

\* CompareAlternatives.py: Cohort(id=0, ..., MONO) and then a second Cohort;
\* the patients of this run start in the last living state
CompareFirst ==
    [ id         : {0},
      pop_size   : 0..MaxPopSize,
      parameters : { Parameters("MONO", AIDS) } ]

CompareSecond ==
    [ id         : 0..MaxCohortId,
      pop_size   : 0..MaxPopSize,
      parameters : { Parameters(th, AIDS) : th \in Therapies } ]

InitCompare ==
    /\ script \in { <<a, b>> : a \in CompareFirst, b \in CompareSecond }
    /\ sim_length \in 0..MaxSimLength
    /\ cohorts = <<>>
    /\ pc = "script"
    /\ i = 0
    /\ patient = None
    /\ streams = <<>>
    /\ simulated = <<>>

\* the script constructs its next Cohort and calls Cohort.simulate(sim_length)
Script_NewCohort ==
    /\ pc = "script"
    /\ Len(cohorts) < Len(script)
    /\ LET a == script[Len(cohorts) + 1]
       IN cohorts' = Append(cohorts, CohortInit(a.id, a.pop_size, a.parameters))
    /\ simulated' = Append(simulated, <<>>)
    /\ i' = 0
    /\ pc' = "for"
    /\ UNCHANGED <<script, sim_length, patient, streams>>

\* for i in range(self.popSize): patient = Patient(...); patient.simulate starts
Cohort_NextPatient ==
    /\ pc = "for"
    /\ i < Current.popSize
    /\ patient' = PatientInit(PatientId(Current, i), Current.params)
    /\ pc' = "while"
    /\ UNCHANGED <<script, sim_length, cohorts, i, streams, simulated>>

\* one iteration of the while loop of Patient.simulate
Patient_Iterate ==
    /\ pc = "while"
    /\ ~ patient.if_stop
    /\ \E sample \in GetNextState(patient.stateMonitor.currentState, patient.rng) :
         /\ patient' = SimulateIteration(patient, sample, sim_length)
         /\ streams' = Remember(patient.rng, sample)
    /\ UNCHANGED <<script, sim_length, cohorts, pc, i, simulated>>

\* Patient.simulate has returned: extract_outcome, and on to the next i
Cohort_ExtractOutcome ==
    /\ pc = "while"
    /\ patient.if_stop
    /\ cohorts' = [cohorts EXCEPT ![Len(cohorts)].cohortOutcomes =
                                      ExtractOutcome(@, patient)]
    /\ simulated' = [simulated EXCEPT ![Len(cohorts)] = Append(@, patient)]
    /\ i' = i + 1
    /\ pc' = "for"
    /\ UNCHANGED <<script, sim_length, patient, streams>>

\* the for loop is over: calculate_cohort_outcomes, and Cohort.simulate returns
Cohort_CalculateOutcomes ==
    /\ pc = "for"
    /\ ~ (i < Current.popSize)
    /\ cohorts' = [cohorts EXCEPT ![Len(cohorts)].cohortOutcomes =
                                      CalculateCohortOutcomes(@, Current.popSize)]
    /\ pc' = "script"
    /\ UNCHANGED <<script, sim_length, i, patient, streams, simulated>>

Next ==
    \/ Script_NewCohort
    \/ Cohort_NextPatient
    \/ Patient_Iterate
    \/ Cohort_ExtractOutcome
    \/ Cohort_CalculateOutcomes

Spec == Init /\ [][Next]_vars

\* CompareAlternatives.py: two cohorts, simulated one after the other
SpecCompare == InitCompare /\ [][Next]_vars

\* the scheduler of the run is the Python interpreter: a statement that can
\* execute does execute
FairSpec == Spec /\ WF_vars(Next)

-----------------------------------------------------------------------------
(* Vocabulary of the properties *)

DeathStates == {HIV_DEATH, NATUAL_DEATH}

\* Patient.simulate is running or has just returned for the current patient
InSimulate == pc = "while"

Monitor == patient.stateMonitor

LastUpdate(p) == p.updates[Len(p.updates)]

\* Cohort.simulate has returned for cohort number c
Finished(c) ==
    /\ c \in DOMAIN cohorts
    /\ (c < Len(cohorts) \/ pc = "script")

\* every patient whose state the run holds: the current one and the simulated ones
Patients ==
    (IF InSimulate THEN {patient} ELSE {})
      \cup UNION { { simulated[c][k] : k \in DOMAIN simulated[c] } : c \in DOMAIN simulated }

-----------------------------------------------------------------------------
(* C1: for a horizon sim_length > 0 and strictly positive waiting times,
   Patient.simulate eventually sets if_stop: a patient whose loop is running
   reaches Stopped. *)
C1_SimulateStops ==
    (InSimulate /\ sim_length > 0) ~> (InSimulate /\ patient.if_stop)

\* a patient that went through at least two events before it stopped
C1_Witness ==
    /\ InSimulate
    /\ sim_length > 0
    /\ patient.if_stop
    /\ Len(patient.updates) >= 3

(* C2: once the monitor's currentState is a death state it never changes again
   and PatientStateMonitor.update is never called again for that patient. *)
C2_DeathIsFinal ==
    [][ (InSimulate /\ Monitor.currentState \in DeathStates)
          => /\ patient'.stateMonitor = patient.stateMonitor
             /\ patient'.updates = patient.updates ]_vars

\* a patient that entered a death state through an update and has stopped
C2_Witness ==
    /\ InSimulate
    /\ patient.if_stop
    /\ Monitor.currentState \in DeathStates
    /\ Len(patient.updates) >= 2
    /\ LastUpdate(patient).new_state \in DeathStates

(* C3: when the sampled event falls beyond the horizon the clock is set to
   sim_length, exactly one more update is applied, at time sim_length and with
   new_state the patient's current state, and the process stops (no update
   follows); that update changes neither currentState, survivalTime nor
   timeToAIDS. *)
C3_Truncation ==
    [][ /\ ( /\ InSimulate
             /\ Len(patient'.updates) > Len(patient.updates)
             /\ LastUpdate(patient').truncated )
          => /\ patient'.t = sim_length
             /\ Len(patient'.updates) = Len(patient.updates) + 1
             /\ LastUpdate(patient').time = sim_length
             /\ LastUpdate(patient').new_state = Monitor.currentState
             /\ patient'.if_stop
             /\ patient'.stateMonitor.currentState = Monitor.currentState
             /\ patient'.stateMonitor.survivalTime = Monitor.survivalTime
             /\ patient'.stateMonitor.timeToAIDS = Monitor.timeToAIDS
        /\ (InSimulate /\ patient.if_stop) => patient' = patient ]_vars

\* a patient truncated while in AIDS, after it had progressed to AIDS
C3_Witness ==
    /\ InSimulate
    /\ patient.if_stop
    /\ Len(patient.updates) >= 2
    /\ LastUpdate(patient).truncated
    /\ Monitor.currentState = AIDS
    /\ Monitor.timeToAIDS # None
    /\ Monitor.timeToAIDS[1] < sim_length

(* C5: for every patient, at every point of its simulation, if both
   survivalTime and timeToAIDS are set then survivalTime >= timeToAIDS. *)
C5_SurvivalAfterAIDS ==
    \A p \in Patients :
        (p.stateMonitor.survivalTime # None /\ p.stateMonitor.timeToAIDS # None)
          => p.stateMonitor.survivalTime[1] >= p.stateMonitor.timeToAIDS[1]

\* a patient that progressed to AIDS and died later
C5_Witness ==
    /\ InSimulate
    /\ Monitor.survivalTime # None
    /\ Monitor.timeToAIDS # None
    /\ Monitor.survivalTime[1] > Monitor.timeToAIDS[1]

(* C4: determinism: two Cohorts constructed with the same id, pop_size and
   parameters and simulated with the same sim_length (the run passes one
   sim_length to both) end with identical outcome collections, entry by
   entry. *)
C4_Determinism ==
    (Finished(1) /\ Finished(2) /\ script[1] = script[2])
      => /\ cohorts[1].cohortOutcomes.survivalTimes = cohorts[2].cohortOutcomes.survivalTimes
         /\ cohorts[1].cohortOutcomes.timesToAIDS = cohorts[2].cohortOutcomes.timesToAIDS
         /\ cohorts[1].cohortOutcomes.costs = cohorts[2].cohortOutcomes.costs
         /\ cohorts[1].cohortOutcomes.utilities = cohorts[2].cohortOutcomes.utilities

\* two equal cohorts of two patients who died at different times
C4_Witness ==
    /\ Finished(1) /\ Finished(2)
    /\ script[1] = script[2]
    /\ cohorts[1].popSize = 2
    /\ Len(cohorts[2].cohortOutcomes.survivalTimes) = 2
    /\ cohorts[2].cohortOutcomes.survivalTimes[1] # cohorts[2].cohortOutcomes.survivalTimes[2]
    /\ cohorts[2].cohortOutcomes.costs[1] # cohorts[2].cohortOutcomes.costs[2]

-----------------------------------------------------------------------------
(* C6-C8: the outcomes of a cohort whose Cohort.simulate has returned *)

Outcomes(c) == cohorts[c].cohortOutcomes

\* the times of the updates through which patient p entered a death state / AIDS
DeathEntries(p) ==
    SelectSeq(p.updates, LAMBDA u : u.new_state \in DeathStates)

AIDSEntries(p) ==
    SelectSeq(p.updates, LAMBDA u : u.new_state = AIDS /\ u.old_state # AIDS)

\* for each patient that has an entry, the time of its first entry, in order
RECURSIVE FirstTimes(_)
FirstTimes(entries) ==
    IF entries = <<>> THEN <<>>
    ELSE (IF Head(entries) = <<>> THEN <<>> ELSE << Head(entries)[1].time >>)
           \o FirstTimes(Tail(entries))

DeathTimes(ps) == FirstTimes([k \in DOMAIN ps |-> DeathEntries(ps[k])])

AIDSTimes(ps) == FirstTimes([k \in DOMAIN ps |-> AIDSEntries(ps[k])])

(* C6: censoring at horizon 0: after Cohort.simulate(sim_length = 0) every
   patient's survivalTime and timeToAIDS are None, the survivalTimes and
   timesToAIDS collections are empty, and every entry of costs and utilities
   is exactly 0 (one entry per patient). *)
C6_HorizonZero ==
    \A c \in DOMAIN cohorts :
        (Finished(c) /\ sim_length = 0)
          => /\ \A k \in DOMAIN simulated[c] :
                    /\ simulated[c][k].stateMonitor.survivalTime = None
                    /\ simulated[c][k].stateMonitor.timeToAIDS = None
             /\ Outcomes(c).survivalTimes = <<>>
             /\ Outcomes(c).timesToAIDS = <<>>
             /\ Len(Outcomes(c).costs) = cohorts[c].popSize
             /\ Len(Outcomes(c).utilities) = cohorts[c].popSize
             /\ \A k \in DOMAIN Outcomes(c).costs : Outcomes(c).costs[k] = 0
             /\ \A k \in DOMAIN Outcomes(c).utilities : Outcomes(c).utilities[k] = 0

\* a cohort of two living patients simulated over the horizon 0
C6_Witness ==
    /\ Finished(1)
    /\ sim_length = 0
    /\ cohorts[1].popSize = 2
    /\ \A k \in DOMAIN simulated[1] :
          /\ simulated[1][k].updates # <<>>
          /\ simulated[1][k].stateMonitor.currentState \notin DeathStates

(* C7: population conservation: the living-population series built by
   calculate_cohort_outcomes starts at pop_size, receives exactly one -1
   decrement per patient with a recorded survival time, and its count is never
   negative. *)
C7_PopulationConservation ==
    \A c \in DOMAIN cohorts :
        Finished(c)
          => LET path == Outcomes(c).nLivingPatients[1]
                 sizes == PathSizes(path.initial_size, path.times_of_changes,
                                    path.increments)
                 died == { k \in DOMAIN simulated[c] :
                             simulated[c][k].stateMonitor.survivalTime # None }
             IN /\ sizes[1] = cohorts[c].popSize
                /\ Len(path.increments) = Cardinality(died)
                /\ Len(path.times_of_changes) = Len(path.increments)
                /\ \A k \in DOMAIN path.increments : path.increments[k] = -1
                /\ \A k \in DOMAIN sizes : sizes[k] >= 0

\* a cohort of two patients, one of which died after it had progressed to AIDS
C7_Witness ==
    /\ Finished(1)
    /\ cohorts[1].popSize = 2
    /\ Len(Outcomes(1).survivalTimes) = 1
    /\ Len(Outcomes(1).timesToAIDS) = 2

(* C8: after Cohort.simulate on a freshly constructed Cohort, costs and
   utilities hold exactly pop_size entries, one per patient in patient-index
   order; survivalTimes holds exactly the survival times of the patients who
   entered a death state and timesToAIDS exactly the progression times of the
   patients who entered AIDS; a censored patient contributes no entry. *)
C8_Collections ==
    \A c \in DOMAIN cohorts :
        Finished(c)
          => /\ Len(simulated[c]) = cohorts[c].popSize
             /\ \A k \in DOMAIN simulated[c] : simulated[c][k].id = PatientId(cohorts[c], k - 1)
             /\ Outcomes(c).costs =
                  [k \in 1..cohorts[c].popSize |->
                     simulated[c][k].stateMonitor.costUtilityMonitor.totalDiscountedCost]
             /\ Outcomes(c).utilities =
                  [k \in 1..cohorts[c].popSize |->
                     simulated[c][k].stateMonitor.costUtilityMonitor.totalDiscountedUtility]
             /\ Outcomes(c).survivalTimes = DeathTimes(simulated[c])
             /\ Outcomes(c).timesToAIDS = AIDSTimes(simulated[c])

\* a cohort of two patients of which only the second died and only the first
\* progressed to AIDS, where it was censored
C8_Witness ==
    /\ Finished(1)
    /\ cohorts[1].popSize = 2
    /\ simulated[1][1].stateMonitor.currentState = AIDS
    /\ AIDSEntries(simulated[1][1]) # <<>>
    /\ LastUpdate(simulated[1][1]).truncated
    /\ AIDSEntries(simulated[1][2]) = <<>>
    /\ DeathEntries(simulated[1][2]) # <<>>
    /\ Len(Outcomes(1).survivalTimes) = 1
    /\ Len(Outcomes(1).timesToAIDS) = 1

-----------------------------------------------------------------------------
(* C9: patient ids across the cohorts of a run *)

\* the patients simulated so far, as (cohort number, position) pairs
SimulatedAt == { <<c, k>> \in (DOMAIN simulated) \X (1..MaxPopSize + 1) : k \in DOMAIN simulated[c] }

\* (cohort id, patient index) of the patient at x
IdPair(x) == <<cohorts[x[1]].id, x[2] - 1>>

(* C9 as stated: any two different (cohort id, patient index) pairs among the
   cohorts of the run get different patient ids, and so different seeds,
   whatever the population sizes. *)
C9_DistinctIdsAnySize ==
    \A x \in SimulatedAt, y \in SimulatedAt :
        IdPair(x) # IdPair(y)
          => /\ simulated[x[1]][x[2]].id # simulated[y[1]][y[2]].id
             /\ simulated[x[1]][x[2]].rng.seed # simulated[y[1]][y[2]].rng.seed

(* C9 amended: any two different (cohort id, patient index) pairs among
   cohorts of the same population size get different patient ids, and so
   different seeds. *)
C9_DistinctIdsSameSize ==
    \A x \in SimulatedAt, y \in SimulatedAt :
        (IdPair(x) # IdPair(y) /\ cohorts[x[1]].popSize = cohorts[y[1]].popSize)
          => /\ simulated[x[1]][x[2]].id # simulated[y[1]][y[2]].id
             /\ simulated[x[1]][x[2]].rng.seed # simulated[y[1]][y[2]].rng.seed

\* two cohorts of two patients each, with different cohort ids, both simulated
C9_Witness ==
    /\ Finished(1) /\ Finished(2)
    /\ cohorts[1].id # cohorts[2].id
    /\ cohorts[1].popSize = 2
    /\ cohorts[2].popSize = 2
    /\ Len(simulated[2]) = 2

(* C10: configuration errors fail fast: with a negative pop_size or a
   non-positive horizon the run ends in an error before any patient is
   simulated and before any outcome collection is modified.  The run has no
   error outcome; stated on what it does instead: no patient is ever created
   and no cohort's outcomes ever differ from the freshly constructed ones. *)
C10_FailFast ==
    (sim_length <= 0 \/ \E k \in DOMAIN script : script[k].pop_size < 0)
      => /\ pc # "while"
         /\ \A c \in DOMAIN cohorts :
               /\ simulated[c] = <<>>
               /\ cohorts[c].cohortOutcomes = CohortOutcomesInit

-----------------------------------------------------------------------------
(* PatientStateMonitor used on its own: a caller that holds a Patient and
   calls patient.stateMonitor.update(time, new_state) itself, with any time
   and any state, whatever the monitor's current state *)

\* Patient(id=0, parameters=...) constructed by the caller
InitMonitor ==
    /\ script = <<>>
    /\ sim_length = MaxSimLength
    /\ cohorts = <<>>
    /\ pc = "monitor"
    /\ i = 0
    /\ patient \in { PatientInit(0, Parameters(th, s)) : th \in Therapies, s \in HealthStates }
    /\ streams = <<>>
    /\ simulated = <<>>

\* annualStateCosts[current_state.value] and annualStateUtilities[current_state.value]
\* exist (lists index from 0, sequences from 1)
HasStateRates(params, current_state) ==
    /\ current_state + 1 \in DOMAIN params.annualStateCosts
    /\ current_state + 1 \in DOMAIN params.annualStateUtilities

\* PatientStateMonitor.update up to the IndexError raised by the list lookup of
\* PatientCostUtilityMonitor.update: the two assignments before the call are done
StateMonitorUpdateRaised(m, time, new_state) ==
    [ m EXCEPT
        !.survivalTime = IF new_state \in {HIV_DEATH, NATUAL_DEATH}
                           THEN Some(time) ELSE @,
        !.timeToAIDS   = IF m.currentState # AIDS /\ new_state = AIDS
                           THEN Some(time) ELSE @ ]

\* the caller's update call returns
Monitor_Update ==
    /\ pc = "monitor"
    /\ Len(patient.updates) < MaxUpdates
    /\ HasStateRates(patient.params, patient.stateMonitor.currentState)
    /\ \E time \in 0..sim_length, new_state \in HealthStates :
         patient' = [ patient EXCEPT
                        !.stateMonitor = StateMonitorUpdate(@, patient.params, time, new_state),
                        !.updates = Append(@, [ time      |-> time,
                                                old_state |-> patient.stateMonitor.currentState,
                                                new_state |-> new_state,
                                                truncated |-> FALSE ]) ]
    /\ UNCHANGED <<script, sim_length, cohorts, pc, i, streams, simulated>>

\* the caller's update call raises IndexError and the run ends
Monitor_UpdateRaises ==
    /\ pc = "monitor"
    /\ Len(patient.updates) < MaxUpdates
    /\ ~ HasStateRates(patient.params, patient.stateMonitor.currentState)
    /\ \E time \in 0..sim_length, new_state \in HealthStates :
         patient' = [ patient EXCEPT
                        !.stateMonitor = StateMonitorUpdateRaised(@, time, new_state) ]
    /\ pc' = "error"
    /\ UNCHANGED <<script, sim_length, cohorts, i, streams, simulated>>

NextMonitor ==
    \/ Monitor_Update
    \/ Monitor_UpdateRaises

SpecMonitor == InitMonitor /\ [][NextMonitor]_vars

(* C11: an update received by a monitor whose currentState is already a death
   state is fatal: the call ends the run with an error instead of returning
   with survivalTime, currentState or the totals changed. *)
C11_UpdateAfterDeathFatal ==
    [][ (pc = "monitor" /\ Monitor.currentState \in DeathStates) => pc' = "error" ]_vars

-----------------------------------------------------------------------------
(* Waiting times other than whole positive ticks *)

\* get_next_state returns a waiting time shorter than one tick (an exponential
\* sample has no positive lower bound): the event happens at the clock's time
Patient_IterateInstant ==
    /\ pc = "while"
    /\ ~ patient.if_stop
    /\ ~ IsAbsorbing(patient.stateMonitor.currentState)
    /\ \E j \in RateSupport(patient.stateMonitor.currentState) :
         LET sample == [state |-> patient.stateMonitor.currentState, dt |-> Some(0), i |-> j]
         IN /\ patient' = SimulateIteration(patient, sample, sim_length)
            /\ streams' = Remember(patient.rng, sample)
    /\ UNCHANGED <<script, sim_length, cohorts, pc, i, simulated>>

NextNonNegative ==
    \/ Next
    \/ Patient_IterateInstant

\* RunMarkovModel.py with a cohort of one patient
InitOnePatient ==
    /\ script \in { <<a>> : a \in { b \in CohortArgs : b.pop_size = 1 } }
    /\ sim_length \in 0..MaxSimLength
    /\ cohorts = <<>>
    /\ pc = "script"
    /\ i = 0
    /\ patient = None
    /\ streams = <<>>
    /\ simulated = <<>>

\* one patient, with waiting times of any non-negative length
SpecNonNegative == InitOnePatient /\ [][NextNonNegative]_vars

\* a sampler that returns a negative waiting time (an exponential sample never
\* is negative: this is a faulty sampler, or a faulty rate matrix)
Patient_IterateBackwards ==
    /\ pc = "while"
    /\ ~ patient.if_stop
    /\ ~ IsAbsorbing(patient.stateMonitor.currentState)
    /\ \E d \in 1..MaxDt, j \in RateSupport(patient.stateMonitor.currentState) :
         LET sample == [state |-> patient.stateMonitor.currentState, dt |-> Some(-d), i |-> j]
         IN /\ patient' = SimulateIteration(patient, sample, sim_length)
            /\ streams' = Remember(patient.rng, sample)
    /\ UNCHANGED <<script, sim_length, cohorts, pc, i, simulated>>

NextAnySample ==
    \/ NextNonNegative
    \/ Patient_IterateBackwards

SpecAnySample == InitOnePatient /\ [][NextAnySample]_vars

(* C12: a negative waiting time returned by the sampler is fatal in
   Patient.simulate: while one patient is simulated the clock t never moves
   backwards and no monitor update is applied at a time earlier than the
   previous update.  (Patient.simulate has no error outcome at all.) *)
C12_NegativeDtFatal ==
    [][ (pc = "while" /\ pc' = "while")
          => /\ patient'.t >= patient.t
             /\ patient'.stateMonitor.costUtilityMonitor.tLastRecorded
                  >= patient.stateMonitor.costUtilityMonitor.tLastRecorded ]_vars

-----------------------------------------------------------------------------
(* Cohort.simulate called a second time *)

\* the script calls simulate(sim_length) again on the Cohort it has just
\* simulated, before it constructs its next one: the for loop starts again on
\* the same Cohort object, whose cohortOutcomes were created by __init__
Script_SimulateAgain ==
    /\ pc = "script"
    /\ cohorts # <<>>
    /\ Len(cohorts) < Len(script)
    /\ Len(simulated[Len(cohorts)]) = Current.popSize
    /\ i' = 0
    /\ pc' = "for"
    /\ UNCHANGED <<script, sim_length, cohorts, patient, streams, simulated>>

NextSimulateAgain ==
    \/ Next
    \/ Script_SimulateAgain

SpecSimulateAgain == InitCompare /\ [][NextSimulateAgain]_vars

(* C13: cohort outcomes are finalized once: once Cohort.simulate has returned
   for a cohort (its living-population series is built), no later step, a
   second call of Cohort.simulate included, changes its survivalTimes,
   timesToAIDS, costs, utilities or living-population series. *)
C13_FinalizedOnce ==
    [][ \A c \in DOMAIN cohorts :
          cohorts[c].cohortOutcomes.nLivingPatients # None
            => /\ cohorts'[c].cohortOutcomes.survivalTimes = cohorts[c].cohortOutcomes.survivalTimes
               /\ cohorts'[c].cohortOutcomes.timesToAIDS = cohorts[c].cohortOutcomes.timesToAIDS
               /\ cohorts'[c].cohortOutcomes.costs = cohorts[c].cohortOutcomes.costs
               /\ cohorts'[c].cohortOutcomes.utilities = cohorts[c].cohortOutcomes.utilities
               /\ cohorts'[c].cohortOutcomes.nLivingPatients
                    = cohorts[c].cohortOutcomes.nLivingPatients ]_vars

-----------------------------------------------------------------------------
(* Properties of one patient's trajectory *)

\* the patient's PatientCostUtilityMonitor
Totals == patient.stateMonitor.costUtilityMonitor

(* C14: with the non-negative costs and utilities of input_data.py, a
   patient's totalDiscountedCost and totalDiscountedUtility are 0 as long as
   no update was made and never decrease from one step of Patient.simulate to
   the next. *)
C14_TotalsMonotone ==
    [][ pc' = "while"
          => /\ patient'.updates = <<>>
                  => /\ Totals'.totalDiscountedCost = 0
                     /\ Totals'.totalDiscountedUtility = 0
             /\ pc = "while"
                  => /\ Totals'.totalDiscountedCost >= Totals.totalDiscountedCost
                     /\ Totals'.totalDiscountedUtility >= Totals.totalDiscountedUtility ]_vars

\* two updates were made and both totals have grown
C14_Witness ==
    /\ InSimulate
    /\ Len(patient.updates) >= 2
    /\ patient.updates[1].time < patient.updates[2].time
    /\ Totals.totalDiscountedCost > 0
    /\ Totals.totalDiscountedUtility > 0

\* this step of Patient.simulate makes a monitor update
UpdateStep ==
    /\ pc = "while"
    /\ pc' = "while"
    /\ Len(patient'.updates) = Len(patient.updates) + 1

\* cost = annualStateCosts[state.value] + annualTreatmentCost
CostRate(p, state) == p.params.annualStateCosts[state + 1] + p.params.annualTreatmentCost

\* utility = annualStateUtilities[state.value]
UtilityRate(p, state) == p.params.annualStateUtilities[state + 1]

(* C15 as stated: each update adds to each total rate * (1 - e^(-discount * dt))
   / discount with dt = time - tLastRecorded, an amount that does not depend
   on the start tLastRecorded of the interval. *)
C15_IntervalLengthOnly ==
    [][ UpdateStep
          => LET state == patient.stateMonitor.currentState
                 r == patient.params.discountRate
                 dt == Totals'.tLastRecorded - Totals.tLastRecorded
             IN /\ Totals'.totalDiscountedCost - Totals.totalDiscountedCost
                     = PvIntervalLengthOnly(CostRate(patient, state), r, 0, dt)
                /\ Totals'.totalDiscountedUtility - Totals.totalDiscountedUtility
                     = PvIntervalLengthOnly(UtilityRate(patient, state), r, 0, dt) ]_vars

(* C15, amended: each update adds to each total the value at time 0 of the
   flow over (tLastRecorded, time], rate * (e^(-discount * tLastRecorded)
   - e^(-discount * time)) / discount, which is the amount of the claim
   discounted from the start of the interval back to time 0: it is never
   larger than that amount and equal to it when tLastRecorded = 0. *)
C15_ValueAtTimeZero ==
    [][ UpdateStep
          => LET state == patient.stateMonitor.currentState
                 r == patient.params.discountRate
                 t1 == Totals.tLastRecorded
                 t2 == Totals'.tLastRecorded
                 dCost == Totals'.totalDiscountedCost - Totals.totalDiscountedCost
                 dUtility == Totals'.totalDiscountedUtility - Totals.totalDiscountedUtility
             IN /\ dCost = (CostRate(patient, state)
                              * (DiscountFactor(r, t1) - DiscountFactor(r, t2))) \div r
                /\ dUtility = (UtilityRate(patient, state)
                                 * (DiscountFactor(r, t1) - DiscountFactor(r, t2))) \div r
                /\ dCost <= PvIntervalLengthOnly(CostRate(patient, state), r, 0, t2 - t1)
                /\ dUtility <= PvIntervalLengthOnly(UtilityRate(patient, state), r, 0, t2 - t1)
                /\ t1 = 0 => dCost = PvIntervalLengthOnly(CostRate(patient, state), r, 0, t2) ]_vars

\* a second update over an interval that starts after time 0 has added less
\* than the amount computed from the length of the interval alone
C15_Witness ==
    /\ InSimulate
    /\ Len(patient.updates) = 2
    /\ patient.updates[1].time > 0
    /\ patient.updates[2].time > patient.updates[1].time
    /\ LET u == patient.updates
           r == patient.params.discountRate
       IN Totals.totalDiscountedCost
            < PvIntervalLengthOnly(CostRate(patient, u[1].old_state), r, 0, u[1].time)
              + PvIntervalLengthOnly(CostRate(patient, u[2].old_state), r,
                                     u[1].time, u[2].time)

\* p.stateMonitor.timeToAIDS is the time of p's first transition into AIDS,
\* and None when p made none
TimeToAIDSIsFirstEntry(p) ==
    p.stateMonitor.timeToAIDS
      = IF AIDSEntries(p) = <<>> THEN None ELSE Some(AIDSEntries(p)[1].time)

(* C16: during Patient.simulate timeToAIDS is assigned at most once: it is
   None until the patient's first transition into AIDS, the time of that
   transition from then on, and no later update, the update at the horizon
   included, changes it. *)
C16_TimeToAIDSOnce ==
    [][ pc' = "while"
          => /\ TimeToAIDSIsFirstEntry(patient')
             /\ (pc = "while" /\ patient.stateMonitor.timeToAIDS # None)
                  => patient'.stateMonitor.timeToAIDS = patient.stateMonitor.timeToAIDS ]_vars

\* the patient entered AIDS, stayed there until the horizon and received the
\* truncating update: timeToAIDS is still the time of the entry
C16_Witness ==
    /\ InSimulate
    /\ Len(patient.updates) >= 2
    /\ LastUpdate(patient).truncated
    /\ LastUpdate(patient).old_state = AIDS
    /\ \E k \in 1..(Len(patient.updates) - 1) :
         /\ patient.updates[k].old_state # AIDS
         /\ patient.updates[k].new_state = AIDS
         /\ patient.updates[k].time < LastUpdate(patient).time
         /\ patient.stateMonitor.timeToAIDS = Some(patient.updates[k].time)

(* C17: each update(time, new_state) charges the interval (tLastRecorded, time]
   at the cost and utility rates of the state held before the update, not at
   the rates of new_state; after it currentState is new_state and
   tLastRecorded is time. *)
C17_ChargesVacatedState ==
    [][ UpdateStep
          => LET before == patient.stateMonitor.currentState
                 call == patient'.updates[Len(patient'.updates)]
                 r == patient.params.discountRate
             IN /\ call.old_state = before
                /\ Totals'.totalDiscountedCost
                     = Totals.totalDiscountedCost
                       + PvContinuousPayment(CostRate(patient, before), r,
                                             Totals.tLastRecorded, call.time)
                /\ Totals'.totalDiscountedUtility
                     = Totals.totalDiscountedUtility
                       + PvContinuousPayment(UtilityRate(patient, before), r,
                                             Totals.tLastRecorded, call.time)
                /\ patient'.stateMonitor.currentState = call.new_state
                /\ Totals'.tLastRecorded = call.time ]_vars

\* an update that moved the patient to a state with other rates, over an
\* interval of positive length: the total is the charge at the old state's rate
C17_Witness ==
    /\ InSimulate
    /\ Len(patient.updates) = 1
    /\ patient.updates[1].time > 0
    /\ patient.updates[1].old_state = CD4_200to500
    /\ patient.updates[1].new_state = CD4_200
    /\ patient.stateMonitor.currentState = CD4_200
    /\ Totals.tLastRecorded = patient.updates[1].time
    /\ Totals.totalDiscountedCost
         = PvContinuousPayment(CostRate(patient, CD4_200to500), patient.params.discountRate,
                               0, patient.updates[1].time)
    /\ Totals.totalDiscountedCost
         # PvContinuousPayment(CostRate(patient, CD4_200), patient.params.discountRate,
                               0, patient.updates[1].time)

\* x is None or a time within the horizon
WithinHorizon(x) == x # None => (0 <= x[1] /\ x[1] <= sim_length)

(* C18: with sim_length >= 0 and non-negative waiting times, every patient's
   clock satisfies 0 <= t <= sim_length in every state, the times passed to
   its successive monitor updates never decrease, and its survivalTime and
   timeToAIDS, when recorded, lie in [0, sim_length]. *)
C18_ClockWithinHorizon ==
    \A p \in Patients :
      /\ 0 <= p.t /\ p.t <= sim_length
      /\ \A k \in DOMAIN p.updates :
           /\ 0 <= p.updates[k].time /\ p.updates[k].time <= sim_length
           /\ k > 1 => p.updates[k - 1].time <= p.updates[k].time
      /\ p.updates # <<>> => LastUpdate(p).time = p.t
      /\ WithinHorizon(p.stateMonitor.survivalTime)
      /\ WithinHorizon(p.stateMonitor.timeToAIDS)

\* a patient who entered AIDS after time 0, with two events at the same time
\* on the way, and died exactly at the horizon
C18_Witness ==
    /\ InSimulate
    /\ sim_length > 0
    /\ patient.t = sim_length
    /\ patient.stateMonitor.survivalTime = Some(sim_length)
    /\ patient.stateMonitor.timeToAIDS # None
    /\ patient.stateMonitor.timeToAIDS[1] > 0
    /\ \E k \in 2..Len(patient.updates) :
         patient.updates[k - 1].time = patient.updates[k].time

\* Patient.simulate has stopped for p, and p did not start in an absorbing state
StoppedAfterLiving(p) ==
    /\ p.if_stop
    /\ ~ IsAbsorbing(p.params.initialHealthState)

(* C19: for a patient whose initial state is not absorbing, when
   Patient.simulate has stopped survivalTime is set if and only if
   currentState is a death state, and a patient stopped by the horizon has
   survivalTime None and a currentState that is not a death state. *)
C19_SurvivalIffDead ==
    \A p \in Patients :
      StoppedAfterLiving(p)
        => /\ p.stateMonitor.survivalTime # None
                <=> p.stateMonitor.currentState \in DeathStates
           /\ p.updates # <<>>
           /\ LastUpdate(p).truncated
                => /\ p.stateMonitor.survivalTime = None
                   /\ p.stateMonitor.currentState \notin DeathStates
           /\ ~ LastUpdate(p).truncated
                => p.stateMonitor.currentState \in DeathStates

\* a patient who progressed to AIDS and was stopped there by the horizon
C19_Witness ==
    /\ InSimulate
    /\ StoppedAfterLiving(patient)
    /\ Len(patient.updates) >= 2
    /\ LastUpdate(patient).truncated
    /\ patient.stateMonitor.currentState = AIDS
    /\ patient.stateMonitor.timeToAIDS # None
    /\ patient.stateMonitor.survivalTime = None

(* C20: the accumulator covers the trajectory without gap or overlap: after
   every monitor update tLastRecorded equals the clock t (it is 0 before the
   first), and for a patient whose initial state is not absorbing, when
   Patient.simulate has stopped tLastRecorded is survivalTime if the patient
   died and sim_length otherwise. *)
C20_AccumulatorCoversTrajectory ==
    \A p \in Patients :
      /\ p.updates = <<>> => p.stateMonitor.costUtilityMonitor.tLastRecorded = 0
      /\ p.updates # <<>> => p.stateMonitor.costUtilityMonitor.tLastRecorded = p.t
      /\ StoppedAfterLiving(p)
           => p.stateMonitor.costUtilityMonitor.tLastRecorded
                = IF p.stateMonitor.survivalTime # None
                    THEN p.stateMonitor.survivalTime[1]
                    ELSE sim_length

\* a patient who died before the horizon after an earlier event: the last
\* recording is at the time of death
C20_Witness ==
    /\ InSimulate
    /\ StoppedAfterLiving(patient)
    /\ Len(patient.updates) >= 2
    /\ patient.updates[1].time > 0
    /\ patient.stateMonitor.survivalTime # None
    /\ patient.stateMonitor.survivalTime[1] > patient.updates[1].time
    /\ patient.stateMonitor.survivalTime[1] < sim_length
    /\ Totals.tLastRecorded = patient.stateMonitor.survivalTime[1]

====
